---- MODULE Spec2Model ----
(***************************************************************************)
(* Model of the two "About the Model" pages of the maternal-risk           *)
(* dashboard (src/pages/2 About the Model.py, src/pages/4 About the        *)
(* Model.py).  Each Streamlit session runs main() of a page from top to    *)
(* bottom on every render, in its own script thread; st.session_state is   *)
(* per session, the st.cache_resource model object is one per process, and *)
(* ./explainer.joblib is one file shared by everything.                    *)
(***************************************************************************)
EXTENDS Integers, Sequences, FiniteSets, TLC

VARIABLES
    session_state,  \* per session: the keys X_train.. (split) and explainer
    model,          \* the single st.cache_resource model object
    file,           \* contents of ./explainer.joblib
    pc,             \* per session: position of the running render in main()
    local,          \* per session: local variables of the running render
    hist,           \* per session: calls of the splitter / explainer
    renders,        \* renders started so far
    y_test_in,      \* evaluation step alone: true labels
    y_pred_in,      \* evaluation step alone: predicted labels
    cm              \* evaluation step alone: confusion matrix

vars == <<session_state, model, file, pc, local, hist, renders,
          y_test_in, y_pred_in, cm>>

evalVars == <<y_test_in, y_pred_in, cm>>

\* ---------------------------------------------------------------- bounds
MaxRenders == 3
NumRows == 5
NChunks == 2
MaxLen == 3

\* ------------------------------------------------------ program constants
TestSizeTenths == 2
RandomState == 7
NumClasses == 3

\* two browser sessions served by one process
Sessions == {1, 2}
Classes == 1..NumClasses   \* 1 high risk, 2 low risk, 3 mid risk (sorted)

\* absent values (Python's None, a key not in st.session_state, no file)
NoSplit == [test |-> {}, train |-> {}]
NoArt == [gen |-> 0, labels |-> "none", val |-> {}, by |-> 0]
NoPred == [space |-> "none", gen |-> 0, train |-> {}]
NoMatrix == <<>>
Absent == [exists |-> FALSE, data |-> <<>>]
Hole == NoArt

\* ---------------------------------------------------------------- data
\* load_data(): the rows of the labelled table (by index)
Dataset == 1..NumRows

\* seeded shuffle of the row indices: a fixed function of (n, seed)
Shuffle(n, seed) == [i \in 1..n |-> ((i - 1 + seed) % n) + 1]

\* train_test_split(X, y, test_size=0.2, random_state=7):
\* n_test = ceil(0.2 n), n_train = floor(0.8 n), rows taken from the shuffle
train_test_split(n, seed) ==
    LET n_test == (TestSizeTenths * n + 9) \div 10
        n_train == ((10 - TestSizeTenths) * n) \div 10
        perm == Shuffle(n, seed)
    IN  [test |-> {perm[i] : i \in 1..n_test},
         train |-> {perm[i] : i \in (n_test + 1)..(n_test + n_train)}]

\* ------------------------------------------------------------ evaluation
Range(s) == {s[i] : i \in 1..Len(s)}

Min(S) == CHOOSE x \in S : \A y \in S : x <= y

RECURSIVE SortedSeq(_)
SortedSeq(S) == IF S = {} THEN <<>> ELSE <<Min(S)>> \o SortedSeq(S \ {Min(S)})

\* sklearn confusion_matrix(y_true, y_pred) as called (no labels= argument):
\* the labels are the sorted labels that occur in y_true or y_pred
confusion_matrix(y_true, y_pred) ==
    LET labels == SortedSeq(Range(y_true) \cup Range(y_pred))
        n == Len(labels)
    IN  [i \in 1..n |-> [j \in 1..n |->
            Cardinality({k \in 1..Len(y_true) :
                            y_true[k] = labels[i] /\ y_pred[k] = labels[j]})]]

RECURSIVE SumSeq(_)
SumSeq(s) == IF s = <<>> THEN 0 ELSE s[1] + SumSeq(Tail(s))

CellSum(m) == SumSeq([i \in 1..Len(m) |-> SumSeq(m[i])])

\* ------------------------------------------------------------------ file
\* the file is Absent or holds a sequence of written chunks; a chunk is the
\* artifact it belongs to, or Hole where nothing was written
FileStatus(f) ==
    IF ~f.exists THEN "absent"
    ELSE IF /\ Len(f.data) = NChunks
            /\ \A i \in 1..Len(f.data) : f.data[i] # Hole /\ f.data[i] = f.data[1]
         THEN "complete"
         ELSE "partial"

\* a write of chunk a at offset off through an open handle
WriteAt(f, off, a) ==
    [f EXCEPT !.data =
        [i \in 1..(IF off > Len(f.data) THEN off ELSE Len(f.data)) |->
            IF i = off THEN a ELSE IF i <= Len(f.data) THEN f.data[i] ELSE Hole]]

\* ----------------------------------------------------------------- state
EmptySession == [split |-> NoSplit, explainer |-> NoArt]

EmptyHist == [explainCalls |-> 0, splitCalls4 |-> 0, splitCalls2 |-> 0]

\* locals of main() plus what the render did: rid numbers the render,
\* fitGen is the fit this render made last, hadKey/how/fileAtBranch/
\* readDuringWrite describe the explainer branch, endLabels the model when the render ended
NoLocal == [page |-> 0, rid |-> 0, split |-> NoSplit, yKind |-> "none",
            fitGen |-> 0, pred |-> NoPred, explainer |-> NoArt,
            hadKey |-> FALSE, how |-> "none", fileAtBranch |-> "none", readDuringWrite |-> FALSE,
            dumpFailed |-> FALSE, loadFailed |-> FALSE,
            chunk |-> 0, outcome |-> "none", endLabels |-> "none"]

\* the process has just started: no session has run a page yet
InitPages ==
    /\ session_state = [s \in Sessions |-> EmptySession]
    /\ model \in {[gen |-> 0, labels |-> l, train |-> {}] : l \in {"unfit", "str"}}
    /\ file = Absent
    /\ pc = [s \in Sessions |-> "idle"]
    /\ local = [s \in Sessions |-> NoLocal]
    /\ hist = [s \in Sessions |-> EmptyHist]
    /\ renders = 0

Init ==
    /\ InitPages
    /\ y_test_in = <<>>
    /\ y_pred_in = <<>>
    /\ cm = NoMatrix

\* --------------------------------------------------------------- helpers
Goto(s, l) == pc' = [pc EXCEPT ![s] = l]

\* main() is left, by its last statement or by an exception nothing catches
Leave(s, loc, how) ==
    /\ local' = [local EXCEPT ![s] =
                    [loc EXCEPT !.outcome = how, !.endLabels = model.labels]]
    /\ Goto(s, "idle")

\* the k-th model.fit of a render is fit number 2 * (rid - 1) + k
FitId(s, k) == 2 * (local[s].rid - 1) + k

\* model.fit(X_train, y_train) on the process-wide object
Fit(s, k, kind) ==
    model' = [gen |-> FitId(s, k), labels |-> kind, train |-> local[s].split.train]

\* a render of page p begins in session s
Begin(s, p, sp) ==
    /\ pc[s] = "idle"
    /\ renders < MaxRenders
    /\ renders' = renders + 1
    /\ local' = [local EXCEPT ![s] =
                    [NoLocal EXCEPT !.page = p, !.rid = renders + 1, !.split = sp,
                                    !.yKind = "str", !.outcome = "running"]]

\* ---------------------------------------------------------------- page 4
P4Split_Always(s) ==
    /\ LET sp == train_test_split(NumRows, RandomState) IN
        /\ Begin(s, 4, sp)
        /\ session_state' = [session_state EXCEPT ![s].split = sp]
        /\ hist' = [hist EXCEPT ![s].splitCalls4 = @ + 1]
    /\ Goto(s, "p4_fit")
    /\ UNCHANGED <<model, file, evalVars>>

\* main() up to the split: computed and stored if 'X_train' is not in
\* st.session_state, read from it otherwise
P4Split(s) ==
    /\ IF session_state[s].split = NoSplit
       THEN LET sp == train_test_split(NumRows, RandomState) IN
            /\ Begin(s, 4, sp)
            /\ session_state' = [session_state EXCEPT ![s].split = sp]
            /\ hist' = [hist EXCEPT ![s].splitCalls4 = @ + 1]
       ELSE /\ Begin(s, 4, session_state[s].split)
            /\ UNCHANGED <<session_state, hist>>
    /\ Goto(s, "p4_fit")
    /\ UNCHANGED <<model, file, evalVars>>

P4Fit_Skip(s) ==
    /\ pc[s] = "p4_fit"
    /\ IF model.labels = "unfit"
       THEN /\ Fit(s, 1, local[s].yKind)
            /\ local' = [local EXCEPT ![s].fitGen = FitId(s, 1)]
       ELSE /\ local' = [local EXCEPT ![s].fitGen = model.gen]
            /\ UNCHANGED model
    /\ Goto(s, "p4_display")
    /\ UNCHANGED <<session_state, file, hist, renders, evalVars>>

\* model = load_model(); model.fit(X_train, y_train)
P4Fit(s) ==
    /\ pc[s] = "p4_fit"
    /\ Fit(s, 1, local[s].yKind)
    /\ local' = [local EXCEPT ![s].fitGen = FitId(s, 1)]
    /\ Goto(s, "p4_display")
    /\ UNCHANGED <<session_state, file, hist, renders, evalVars>>

\* display_results: model.predict runs on the shared object as it is now
P4Display(s) ==
    /\ pc[s] = "p4_display"
    /\ local' = [local EXCEPT ![s].pred =
                    [space |-> model.labels, gen |-> model.gen, train |-> model.train]]
    /\ Goto(s, "p4_refit")
    /\ UNCHANGED <<session_state, model, file, hist, renders, evalVars>>

\* LabelEncoder().fit_transform on the local labels, then model.fit again
P4Refit(s) ==
    /\ pc[s] = "p4_refit"
    /\ Fit(s, 2, "int")
    /\ local' = [local EXCEPT ![s].yKind = "int", ![s].fitGen = FitId(s, 2)]
    /\ Goto(s, "p4_explainer")
    /\ UNCHANGED <<session_state, file, hist, renders, evalVars>>

\* the artifact ClassifierExplainer(model, X_test, y_test) builds
Explain(s) == [gen |-> model.gen, labels |-> model.labels,
               val |-> local[s].split.test, by |-> s]

P4Construct_NoStore(s) ==
    /\ pc[s] = "p4_explainer"
    /\ session_state[s].explainer = NoArt
    /\ hist' = [hist EXCEPT ![s].explainCalls = @ + 1]
    /\ local' = [local EXCEPT ![s].explainer = Explain(s),
                              ![s].how = "computed",
                              ![s].fileAtBranch = FileStatus(file)]
    /\ Goto(s, "p4_dump_open")
    /\ UNCHANGED <<session_state, model, file, renders, evalVars>>

\* 'explainer' not in st.session_state: build it, store it in the session
P4Construct(s) ==
    /\ pc[s] = "p4_explainer"
    /\ session_state[s].explainer = NoArt
    /\ session_state' = [session_state EXCEPT ![s].explainer = Explain(s)]
    /\ hist' = [hist EXCEPT ![s].explainCalls = @ + 1]
    /\ local' = [local EXCEPT ![s].explainer = Explain(s),
                              ![s].how = "computed",
                              ![s].fileAtBranch = FileStatus(file)]
    /\ Goto(s, "p4_dump_open")
    /\ UNCHANGED <<model, file, renders, evalVars>>

\* explainer.dump: the file is opened for writing, which truncates it
P4DumpOpen(s) ==
    /\ pc[s] = "p4_dump_open"
    /\ file' = [exists |-> TRUE, data |-> <<>>]
    /\ Goto(s, "p4_dump_write")
    /\ UNCHANGED <<session_state, model, local, hist, renders, evalVars>>

\* explainer.dump: the next chunk goes out through this session's handle;
\* after the last one the file is closed and the rest of main() renders the
\* importances of the explainer
P4DumpWrite(s) ==
    /\ pc[s] = "p4_dump_write"
    /\ local[s].chunk < NChunks
    /\ file' = WriteAt(file, local[s].chunk + 1, local[s].explainer)
    /\ IF local[s].chunk + 1 = NChunks
       THEN Leave(s, [local[s] EXCEPT !.chunk = @ + 1], "done")
       ELSE /\ local' = [local EXCEPT ![s].chunk = @ + 1]
            /\ UNCHANGED pc
    /\ UNCHANGED <<session_state, model, hist, renders, evalVars>>

\* explainer.dump raises (open refused, disk full): nothing catches it
P4DumpFail(s) ==
    /\ pc[s] \in {"p4_dump_open", "p4_dump_write"}
    /\ Leave(s, [local[s] EXCEPT !.dumpFailed = TRUE], "aborted")
    /\ UNCHANGED <<session_state, model, file, hist, renders, evalVars>>

\* 'explainer' in st.session_state: ClassifierExplainer.from_file, then the
\* rest of main() renders the importances of the explainer
P4Load(s) ==
    /\ pc[s] = "p4_explainer"
    /\ session_state[s].explainer # NoArt
    /\ LET st == FileStatus(file)
           loc == [local[s] EXCEPT !.hadKey = TRUE,
                                   !.fileAtBranch = st,
                                   !.readDuringWrite =
                                       \E t \in Sessions \ {s} : pc[t] = "p4_dump_write"]
       IN  IF st = "complete"
           THEN Leave(s, [loc EXCEPT !.explainer = file.data[1], !.how = "loaded"], "done")
           ELSE Leave(s, [loc EXCEPT !.loadFailed = TRUE], "aborted")
    /\ UNCHANGED <<session_state, model, file, hist, renders, evalVars>>

\* ---------------------------------------------------------------- page 2
\* main() up to the split: train_test_split on every render
P2Split(s) ==
    /\ Begin(s, 2, train_test_split(NumRows, RandomState))
    /\ hist' = [hist EXCEPT ![s].splitCalls2 = @ + 1]
    /\ Goto(s, "p2_fit")
    /\ UNCHANGED <<session_state, model, file, evalVars>>

\* model = load_model(); model.fit(X_train, y_train)
P2Fit(s) ==
    /\ pc[s] = "p2_fit"
    /\ Fit(s, 1, local[s].yKind)
    /\ local' = [local EXCEPT ![s].fitGen = FitId(s, 1)]
    /\ Goto(s, "p2_display")
    /\ UNCHANGED <<session_state, file, hist, renders, evalVars>>

\* display_results, then the rest of main()
P2Display(s) ==
    /\ pc[s] = "p2_display"
    /\ Leave(s, [local[s] EXCEPT !.pred =
                    [space |-> model.labels, gen |-> model.gen, train |-> model.train]],
             "done")
    /\ UNCHANGED <<session_state, model, file, hist, renders, evalVars>>

\* ------------------------------------------------------------------ specs
Step(s) ==
    \/ P4Split(s)
    \/ P4Fit(s)
    \/ P4Display(s)
    \/ P4Refit(s)
    \/ P4Construct(s)
    \/ P4DumpOpen(s)
    \/ P4DumpWrite(s)
    \/ P4DumpFail(s)
    \/ P4Load(s)
    \/ P2Split(s)
    \/ P2Fit(s)
    \/ P2Display(s)

\* the sessions' script threads interleave statement by statement
Next == \E s \in Sessions : Step(s)

Spec == Init /\ [][Next]_vars

\* complete, non-interleaved renders: a render starts only when no other
\* session is inside main()
NextSeq == \E s \in Sessions : (\A t \in Sessions \ {s} : pc[t] = "idle") /\ Step(s)

SpecSeq == Init /\ [][NextSeq]_vars

\* ------------------------------------------------- the evaluation step alone
\* label sequences of one length, 1..MaxLen rows, over the risk classes
LabelSeqs(n) == [1..n -> Classes]

InitEval ==
    /\ InitPages
    /\ \E n \in 1..MaxLen : y_test_in \in LabelSeqs(n) /\ y_pred_in \in LabelSeqs(n)
    /\ cm = NoMatrix

\* display_results: cm = confusion_matrix(y_test, y_pred_test)
display_results ==
    /\ cm = NoMatrix
    /\ cm' = confusion_matrix(y_test_in, y_pred_in)
    /\ UNCHANGED <<session_state, model, file, pc, local, hist, renders,
                   y_test_in, y_pred_in>>

NextEval == display_results

SpecEval == InitEval /\ [][NextEval]_vars

\* ================================================================== claims

\* C1: a fresh session (no 'explainer' key) that reaches the explainer branch
\* while ./explainer.joblib is present and readable obtains its artifact by
\* loading the file, without constructing a ClassifierExplainer.
C1_FreshSessionLoadsFile ==
    \A s \in Sessions :
        (local[s].how # "none" /\ ~local[s].hadKey /\ local[s].fileAtBranch = "complete")
            => local[s].how = "loaded"

C4_LoadFailureIsCacheMiss ==
    \A s \in Sessions :
        local[s].loadFailed
            => local[s].outcome # "aborted" /\ local[s].how = "computed"

\* C5: a render whose dump fails still completes with the artifact, and a
\* later render of the session gets the session's artifact whatever the
\* state of the file.
C5_DumpFailureNotFatal ==
    \A s \in Sessions :
        /\ local[s].dumpFailed => local[s].outcome # "aborted"
        /\ local[s].hadKey => /\ local[s].outcome = "done"
                              /\ local[s].explainer = session_state[s].explainer

\* C6: a from_file that runs while another session is inside dump sees a
\* complete file, the previous one or the new one, never a partial one.
C6_ReadsSeeCompleteFile ==
    \A s \in Sessions :
        local[s].readDuringWrite => local[s].fileAtBranch = "complete"

\* C7: the split and the artifact a session works on in a render of page 4
\* are the ones stored in that session's own st.session_state.
C7_SessionIsolation ==
    \A s \in Sessions :
        local[s].page = 4 =>
            /\ local[s].split = session_state[s].split
            /\ local[s].explainer # NoArt
                  => local[s].explainer = session_state[s].explainer

\* C8: the artifact a render of page 4 hands to the importances component was
\* built from the model as this render fitted it last and from this render's
\* validation set.
C8_ArtifactMatchesCurrentFit ==
    \A s \in Sessions :
        (local[s].page = 4 /\ local[s].outcome = "done") =>
            /\ local[s].explainer.gen = local[s].fitGen
            /\ local[s].explainer.val = local[s].split.test

\* C9: the confusion matrix is NumClasses x NumClasses, its cells are
\* non-negative and add up to the number of validation rows.
C9_ConfusionMatrix3x3 ==
    cm # NoMatrix =>
        /\ Len(cm) = NumClasses
        /\ \A i \in 1..Len(cm) :
              /\ Len(cm[i]) = NumClasses
              /\ \A j \in 1..Len(cm[i]) : cm[i][j] >= 0
        /\ CellSum(cm) = Len(y_test_in)

\* C10: with complete, non-interleaved renders, a page-4 render leaves the
\* shared model fitted on integer labels, and every predict of
\* display_results runs on the model as this render fitted it first: on this
\* render's training rows, with the string labels.
C10_PredictOnOwnStringFit ==
    \A s \in Sessions :
        /\ local[s].pred # NoPred =>
              /\ local[s].pred.space = "str"
              /\ local[s].pred.gen = FitId(s, 1)
              /\ local[s].pred.train = local[s].split.train
        /\ (local[s].page = 4 /\ local[s].outcome \in {"done", "aborted"})
              => local[s].endLabels = "int"

C10_Witness ==
    \E s \in Sessions :
        /\ local[s].page = 4
        /\ local[s].hadKey
        /\ local[s].pred # NoPred
        /\ local[s].pred.space = "str"
        /\ local[s].endLabels = "int"

====
